---- MODULE Spec2Model ----
(***************************************************************************)
(* RISA streaming pipeline: Receiver -> H2D -> Attenuation -> D2H -> writer *)
(* Every stage owns one input queue and one worker thread per accelerator,  *)
(* a single output queue results_, and borrows its output buffers from the  *)
(* MemoryPool.  End of stream is an invalid Image (the sentinel).           *)
(***************************************************************************)
EXTENDS Integers, Sequences, FiniteSets, TLC

\* ------------------------------------------------------------------ bounds
\* largest number of CUDA devices cudaGetDeviceCount may report
NumDevices == 2
\* number of frames the notification publishes before shutdown
MaxFrames == 2
\* largest small frame index the notification publishes
MaxIdx == 1
\* mempoolsize_h2d / mempoolsize_attenuation / mempoolsize_d2h
MemPoolSize == 1
\* capacity of a queue that was constructed with a limit
QueueLimit == 1
\* inputBufferSize: depth B of a ring buffer, in projection periods
BufferSize == 2
\* most periods the module threads write while loadImage() handles one frame
MaxLag == 2
\* frames and largest small frame index of a run of the front end alone
FrontFrames == 3
FrontIdx == 4
\* largest configured number_of_planes
MaxPlanes == 2
\* most keys a configuration file lacks
MaxMissing == 1
\* largest number_of_frames in the header of a HIS file
MaxHisFrames == 2
\* number of elements of a registered buffer
ImageSize == 2
\* most copies of Images a run of the Image operations makes
MaxCopies == 2
\* numberOfFanDetectors is 8, 16 .. 8 * MaxDetUnits
MaxDetUnits == 4
\* numberOfDetectorModules is 1 .. MaxModules
MaxModules == 2
\* projections per frame 1 .. MaxProj
MaxProj == 2
\* inputBufferSize is 1 .. MaxRing, frame indices are 0 .. MaxRing
MaxRing == 2
\* number_of_reference_frames is 1 .. MaxRefFrames
MaxRefFrames == 3
\* a block (one frame of one plane) has 1 .. MaxElems elements
MaxElems == 3
\* ports 1 .. MaxPorts can be attached to an OutputSide
MaxPorts == 2
\* output() is called with the values 1 .. MaxItems
MaxItems == 2
\* an OutputSide is called at most MaxCalls times
MaxCalls == 4
\* width and height of a Volume are 1 .. MaxSide
MaxSide == 2
\* depth of a Volume is 1 .. MaxDepth, slice indices are 0 .. MaxDepth
MaxDepth == 2
\* sampling rates 1 .. SmallRate, and the RateOver + 1 rates from the largest
\* one whose product with 10^6 fits an int
SmallRate == 3
RateOver == 2

\* ------------------------------------------------------- program constants
\* Receiver registers 100 sinogram buffers
ReceiverPoolSize == 100
\* Receiver::loadImage sets the plane to index % 2
ReceiverPlanes == 2

Devices == 0 .. (NumDevices - 1)
Stages == {"H2D", "Att", "D2H"}
LastStage == "D2H"
Upstream(s) == IF s = "Att" THEN "H2D" ELSE IF s = "D2H" THEN "Att" ELSE "Recv"

\* A std::size_t value v is the pair <<hi, lo>> with v = hi * 2^32 + lo.
SizeT(n) == <<0, n>>
\* conversion of a std::size_t to unsigned int keeps the low 32 bits
ToUInt(v) == v[2]
\* v % m for an even divisor m of 2^32
ModSmall(v, m) == v[2] % m

\* a < b for two std::size_t values
SizeLess(a, b) == a[1] < b[1] \/ (a[1] = b[1] /\ a[2] < b[2])
\* v + n for a small n (no carry into the high word)
SizeAdd(v, n) == <<v[1], v[2] + n>>
\* stands for "no frame index yet"; below every frame index
NoIndex == <<-1, 0>>

\* values the notification can publish: small indices and 2^32 + 1
FetchValues == {SizeT(k) : k \in 0 .. MaxIdx} \cup {<<1, 1>>}
\* the same for a run of the front end alone, with 2^32 as well
FrontValues == {SizeT(k) : k \in 0 .. FrontIdx} \cup {<<1, 0>>, <<1, 1>>}

\* ------------------------------------------------------------------- Image
NoBuf == << >>

\* Image() : the default constructed, invalid Image (the sentinel)
DefaultImage ==
    [valid |-> FALSE, size |-> 0, data |-> NoBuf, index |-> 0, plane |-> 0,
     memoryPoolIndex |-> 0, start |-> 0, device |-> 0, mgr |-> "none"]

\* Image(size, idx, planeID, data) as used by the pool when it registers
NewImage(m, buf) ==
    [valid |-> TRUE, size |-> ImageSize, data |-> buf, index |-> 0,
     plane |-> 0, memoryPoolIndex |-> 0, start |-> 0, device |-> 0, mgr |-> m]

\* setIdx(unsigned int idx): idx is a std::size_t at every call site
setIdx(img, idx) == [img EXCEPT !.index = ToUInt(idx)]
setPlane(img, p) == [img EXCEPT !.plane = p]
setStart(img, t) == [img EXCEPT !.start = t]
setDevice(img, d) == [img EXCEPT !.device = d]
setMemPoolIdx(img, i) == [img EXCEPT !.memoryPoolIndex = i]

\* Image(Image&& other): dst is the new Image, src is other afterwards
MoveCtorKeepsSource(other) == [dst |-> other, src |-> other]
MoveCtor(other) ==
    [dst |-> other,
     src |-> [other EXCEPT !.valid = FALSE, !.data = NoBuf]]

\* MemoryManager::make_ptr(size_) followed by MemoryManager::copy: a buffer
\* outside the pool that holds the elements of the buffer src
CopyOf(src) == <<"copy", src>>
\* the elements a buffer holds: a buffer of the pool holds its own elements
Elements(buf) == IF Len(buf) = 2 THEN buf[2] ELSE buf

\* Image(const Image& other): dst is the new Image, src is other afterwards;
\* start_ is not in the initialiser list
CopyCtorShares(other) == [dst |-> [other EXCEPT !.start = 0], src |-> other]
CopyCtor(other) ==
    [dst |-> [other EXCEPT
                !.data = IF other.data = NoBuf THEN NoBuf ELSE CopyOf(other.data),
                !.start = 0],
     src |-> other]

\* ------------------------------------------------------------- MemoryPool
\* the registration a stage worker borrows from
Reg(s, d) ==
    CASE s = "Recv" -> <<"hostU16", 0>>
      [] s = "H2D" -> <<"devU16", d>>
      [] s = "Att" -> <<"devF32", d>>
      [] s = "D2H" -> <<"hostF32", 0>>

Regs == {Reg("Recv", 0), Reg("D2H", 0)}
          \cup {Reg("H2D", d) : d \in Devices}
          \cup {Reg("Att", d) : d \in Devices}

\* number of buffers a registration is created with when K devices exist:
\* H2D and Attenuation register once per device, Receiver and D2H once
RegCount(r, K) ==
    IF r = Reg("Recv", 0) THEN ReceiverPoolSize
    ELSE IF r = Reg("D2H", 0) \/ r[2] < K THEN MemPoolSize
    ELSE 0

\* The free list of a registration is the vector  fresh ++ used : the Images
\* 1 .. fresh are as registerStage made them and were never handed out, used
\* holds the Images that came back.  Images leave and enter at the back.
FreshImage(r, i) == setMemPoolIdx(NewImage(r[1], <<r[1], r[2], i>>), r[2])
FreeLen(p, r) == p[r].fresh + Len(p[r].used)
FreeAt(p, r, i) ==
    IF i <= p[r].fresh THEN FreshImage(r, i) ELSE p[r].used[i - p[r].fresh]

\* registerStage(count, elements): count fresh Images tagged with the index
registerStage(r, count) == [fresh |-> count, used |-> << >>]

\* returnMemory(img): back onto the free list of the Image's registration
returnMemory(p, img) ==
    [p EXCEPT ![<<img.mgr, img.memoryPoolIndex>>].used = Append(@, img)]

\* requestMemory(index): the Image handed out and the pool afterwards
requestMemory(p, r) ==
    [img |-> FreeAt(p, r, FreeLen(p, r)),
     pool |-> IF Len(p[r].used) > 0
              THEN [p EXCEPT ![r].used = SubSeq(@, 1, Len(@) - 1)]
              ELSE [p EXCEPT ![r].fresh = @ - 1]]

\* ~Image(): a valid Image returns itself to the pool
DestructorLeak(p, img) == p
DestructorUnguarded(p, img) == returnMemory(p, img)
Destructor(p, img) == IF img.valid THEN returnMemory(p, img) ELSE p

\* ------------------------------------------------------------------ Queue
\* push blocks while a limited queue is full (limit 0: unbounded)
CanPush(qu, lim) == lim = 0 \/ Len(qu) < lim
\* take blocks while the queue is empty
CanTake(qu) == Len(qu) > 0
\* take returns the oldest element, moved out, and leaves the rest
takeNewest(qu) == [item |-> qu[Len(qu)], rest |-> SubSeq(qu, 1, Len(qu) - 1)]
take(qu) == [item |-> Head(qu), rest |-> Tail(qu)]

VARIABLES
    numberOfDevices_, \* result of cudaGetDeviceCount
    pool,        \* registration -> free list of Images
    limit_,      \* capacity of the stage queues (0: unbounded)
    now,         \* clock read by the Receiver
    fetched,     \* number of frame indices fetched from the notification
    fpc,         \* stage -> position of the thread that calls process()
    fi,          \* stage -> loop counter of process() on the sentinel
    inp,         \* stage -> the Image passed to process()
    q,           \* stage -> device -> per-accelerator input queue
    results_,    \* stage -> output queue
    wpc,         \* stage -> device -> position of processor(deviceID)
    win,         \* stage -> device -> local 'sinogram' of processor
    wout,        \* stage -> device -> local 'img' of processor
    lastDevice_, \* H2D round-robin cursor
    cpc,         \* position of the writer
    cimg,        \* Image held by the writer
    subLog,      \* stage -> device -> what process() pushed to that queue
    outLog,      \* stage -> device -> what that worker pushed to results_
    sentOut,     \* stage -> number of sentinels pushed to results_
    delivered,   \* what the writer received
    published,   \* frame index the notification yielded last
    lastLoad,    \* what the last loadImage() copied out of the ring buffers
    lastIndex_,  \* H2D: frame index of the Image process() handled last
    lostSinos_,  \* H2D: loss counter
    count_,      \* H2D: number of Images process() has handled
    ctor,        \* a stage constructor that is running on a configuration
    his,         \* a call of HIS::loadImage on a file
    rates,       \* a readConfig that computes the projections per frame
    qmap,        \* the std::map of input queues of a stage and its users
    unit         \* the objects an operation outside the pipeline works on

\* state of the Receiver front end, of the H2D loss accounting, and of the
\* operations that run outside the pipeline
recvVars == <<published, lastLoad>>
lossVars == <<lastIndex_, lostSinos_, count_>>
offlineVars == <<ctor, his, rates, qmap, unit>>
\* everything but unit
exceptUnit == <<numberOfDevices_, pool, limit_, now, fetched, fpc, fi, inp, q,
                results_, wpc, win, wout, lastDevice_, cpc, cimg, subLog,
                outLog, sentOut, delivered, recvVars, lossVars, ctor, his,
                rates, qmap>>

vars == <<numberOfDevices_, pool, limit_, now, fetched, fpc, fi, inp, q,
          results_, wpc, win, wout, lastDevice_, cpc, cimg, subLog, outLog,
          sentOut, delivered, recvVars, lossVars, offlineVars>>

\* the state after the stages were constructed
Constructed ==
    /\ numberOfDevices_ \in 1 .. NumDevices
    /\ pool = [r \in Regs |-> registerStage(r, RegCount(r, numberOfDevices_))]
    /\ now = 1
    /\ fetched = 0
    /\ fpc = [s \in Stages |-> "wait"]
    /\ fi = [s \in Stages |-> 0]
    /\ inp = [s \in Stages |-> DefaultImage]
    /\ q = [s \in Stages |-> [d \in Devices |-> << >>]]
    /\ results_ = [s \in Stages |-> << >>]
    /\ wpc = [s \in Stages |->
                [d \in Devices |-> IF d < numberOfDevices_ THEN "take" ELSE "none"]]
    /\ win = [s \in Stages |-> [d \in Devices |-> DefaultImage]]
    /\ wout = [s \in Stages |-> [d \in Devices |-> DefaultImage]]
    /\ lastDevice_ = 0
    /\ cpc = "take"
    /\ cimg = DefaultImage
    /\ subLog = [s \in Stages |-> [d \in Devices |-> << >>]]
    /\ outLog = [s \in Stages |-> [d \in Devices |-> << >>]]
    /\ sentOut = [s \in Stages |-> 0]
    /\ delivered = << >>
    /\ published = NoIndex
    /\ lastLoad = [index |-> NoIndex, samples |-> NoIndex]
    /\ lastIndex_ = 0
    /\ lostSinos_ = 0
    /\ count_ = 0

\* no constructor and no file loader is running
CtorIdle ==
    [stage |-> "none", keys |-> {}, devices |-> 0, pc |-> "idle", rc |-> 0,
     thrown |-> FALSE, registered |-> 0, threads |-> 0]
HisIdle ==
    [pc |-> "idle", open |-> FALSE, fileTypeOk |-> FALSE,
     headerSizeOk |-> FALSE, typeOfNumbers |-> 0, numberOfFrames |-> 0,
     valid |-> FALSE]
RatesIdle ==
    [pc |-> "idle", stage |-> "none", sampling_rate |-> 0, scan_rate |-> 0,
     overflow |-> FALSE, trapped |-> FALSE, numberOfProjections_ |-> 0]
MapIdle == [stage |-> "none", keys |-> {}, acc |-> << >>, raced |-> FALSE]
UnitIdle == [kind |-> "none"]
Offline ==
    /\ ctor = CtorIdle /\ his = HisIdle /\ rates = RatesIdle
    /\ qmap = MapIdle /\ unit = UnitIdle

\* the stages default-construct their queues: no limit
Init == limit_ = 0 /\ Constructed /\ Offline

\* the same pipeline with every queue constructed with a limit
InitBounded == limit_ = QueueLimit /\ Constructed /\ Offline

\* what the logs keep of an Image
Entry(img) ==
    [valid |-> img.valid, index |-> img.index, plane |-> img.plane,
     start |-> img.start]

\* -------------------------------------------------------------- Receiver
\* The module threads write period p into slot p % bufferSize_ of their ring
\* buffer.  When they are lag periods ahead of frame k, the slot of k holds
\* the newest period <= k + lag that is congruent to k, i.e. period
\* k + lag - (lag % bufferSize_).
SlotContent(k, lag) == SizeAdd(k, lag - (lag % BufferSize))

\* loadImage() when the notification yields the frame index k while the
\* module threads are lag periods ahead; the notification yields every index
\* once, in increasing order
LoadImage(k, lag) ==
    /\ fpc["H2D"] = "wait"
    /\ SizeLess(published, k)
    /\ FreeLen(pool, Reg("Recv", 0)) > 0
    /\ published' = k
    /\ lastLoad' = [index |-> k, samples |-> SlotContent(k, lag)]
    /\ LET rq == requestMemory(pool, Reg("Recv", 0))
           sino == setStart(setPlane(setIdx(rq.img, k),
                                       ModSmall(k, ReceiverPlanes)), now)
       IN /\ pool' = rq.pool
          /\ inp' = [inp EXCEPT !["H2D"] = sino]
    /\ now' = now + 1
    /\ fetched' = fetched + 1
    /\ fpc' = [fpc EXCEPT !["H2D"] = "process"]
    /\ UNCHANGED <<lossVars, offlineVars,
                   numberOfDevices_, limit_, fi, q, results_, wpc, win, wout,
                   lastDevice_, cpc, cimg, subLog, outLog, sentOut,
                   delivered>>

\* a run in which the notification yields at most n frame indices
LoadFrame(k, lag, n) == fetched < n /\ LoadImage(k, lag)

\* loadImage() when the notification yields -1
LoadSentinel ==
    /\ fpc["H2D"] = "wait"
    /\ inp' = [inp EXCEPT !["H2D"] = DefaultImage]
    /\ fpc' = [fpc EXCEPT !["H2D"] = "process"]
    /\ UNCHANGED <<recvVars, lossVars, offlineVars,
                   numberOfDevices_, pool, limit_, now, fetched, fi, q,
                   results_, wpc, win, wout, lastDevice_, cpc, cimg, subLog,
                   outLog, sentOut, delivered>>

\* the port of stage s takes the next output of the stage before it: wait()
Wait(s) ==
    /\ s # "H2D"
    /\ fpc[s] = "wait"
    /\ CanTake(results_[Upstream(s)])
    /\ inp' = [inp EXCEPT ![s] = take(results_[Upstream(s)]).item]
    /\ results_' = [results_ EXCEPT ![Upstream(s)] = take(@).rest]
    /\ fpc' = [fpc EXCEPT ![s] = "process"]
    /\ UNCHANGED <<recvVars, lossVars, offlineVars,
                   numberOfDevices_, pool, limit_, now, fetched, fi, q, wpc,
                   win, wout, lastDevice_, cpc, cimg, subLog, outLog,
                   sentOut, delivered>>

\* ----------------------------------------------------------------- process
\* queue a valid Image is routed to: H2D round-robin, the others by device()
Route(s, img) == IF s = "H2D" THEN lastDevice_ ELSE img.device

\* lastDevice_ = (lastDevice_ + 1) % numberOfDevices_
NextDeviceStays(ld) == ld
NextDevice(ld) == (ld + 1) % numberOfDevices_

\* int diff = sinogram.index() - lastIndex_ - 1.  lastIndex_ and lostSinos_
\* are unsigned counters; the model keeps the representative of small
\* magnitude of a value modulo 2^w, so -1 stands for 2^w - 1.
LossDiff(index, last) == index - last - 1

\* process(img) with a valid Image: push it to one worker queue and return
ProcessValid(s) ==
    /\ fpc[s] = "process"
    /\ inp[s].valid
    /\ LET d == Route(s, inp[s])
           mv == MoveCtor(inp[s])
       \* sinograms_[d] of a std::map: a key without a queue gets a new one
       IN /\ d \in Devices
          /\ CanPush(q[s][d], limit_)
          /\ q' = [q EXCEPT ![s][d] = Append(@, mv.dst)]
          /\ subLog' = [subLog EXCEPT ![s][d] = Append(@, Entry(mv.dst))]
          \* the caller's Image goes out of scope after process() returned
          /\ pool' = Destructor(pool, mv.src)
          \* H2D reads sinogram.index() after the move for its loss accounting
          /\ IF s = "H2D"
             THEN /\ lostSinos_' = lostSinos_ + LossDiff(mv.src.index, lastIndex_)
                  /\ count_' = count_ + 1
                  /\ lastIndex_' = mv.src.index
             ELSE UNCHANGED lossVars
    /\ lastDevice_' = IF s = "H2D" THEN NextDevice(lastDevice_) ELSE lastDevice_
    /\ inp' = [inp EXCEPT ![s] = DefaultImage]
    /\ fpc' = [fpc EXCEPT ![s] = "wait"]
    /\ UNCHANGED <<recvVars, offlineVars,
                   numberOfDevices_, limit_, now, fetched, fi, results_, wpc,
                   win, wout, cpc, cimg, outLog, sentOut, delivered>>

\* process(img) with the sentinel: for(i...) sinograms_[i].push(input_type())
Broadcast(s) ==
    /\ fpc[s] = "process"
    /\ ~inp[s].valid
    /\ CanPush(q[s][fi[s]], limit_)
    /\ q' = [q EXCEPT ![s][fi[s]] = Append(@, DefaultImage)]
    /\ subLog' = [subLog EXCEPT ![s][fi[s]] = Append(@, Entry(DefaultImage))]
    /\ IF fi[s] + 1 < numberOfDevices_
       THEN /\ fi' = [fi EXCEPT ![s] = @ + 1]
            /\ fpc' = fpc
       ELSE /\ fi' = [fi EXCEPT ![s] = 0]
            /\ fpc' = [fpc EXCEPT ![s] = "join"]
    /\ UNCHANGED <<recvVars, lossVars, offlineVars,
                   numberOfDevices_, pool, limit_, now, fetched, inp,
                   results_, wpc, win, wout, lastDevice_, cpc, cimg, outLog,
                   sentOut, delivered>>

\* processorThreads_[i].join() returns once processor(i) has returned
ThreadFinishedNoWait(s, i) == TRUE
ThreadFinished(s, i) == wpc[s][i] = "done"

\* the outbound sentinel follows the join loop, i.e. the join of the last thread
PushAfterEveryJoin(i) == TRUE
PushAfterJoin(i) == i = numberOfDevices_ - 1

\* a thread can be joined once: the join loop of the first sentinel joins
\* processorThreads_[i] and nothing starts it again, so it is joinable while
\* its queue was sent no more than that one sentinel
Joinable(s, i) ==
    Cardinality({j \in 1 .. Len(subLog[s][i]) : ~subLog[s][i][j].valid}) <= 1

\* for(i...) processorThreads_[i].join(); join() of a thread that is not
\* joinable throws std::system_error, which leaves process()
Join(s) ==
    /\ fpc[s] = "join"
    /\ Joinable(s, fi[s]) => ThreadFinished(s, fi[s])
    /\ fi' = [fi EXCEPT ![s] = IF Joinable(s, fi[s]) THEN @ + 1 ELSE @]
    /\ fpc' = [fpc EXCEPT ![s] =
                  IF ~Joinable(s, fi[s]) THEN "error"
                  ELSE IF PushAfterJoin(fi[s]) THEN "out" ELSE "join"]
    /\ UNCHANGED <<recvVars, lossVars, offlineVars,
                   numberOfDevices_, pool, limit_, now, fetched, inp, q,
                   results_, wpc, win, wout, lastDevice_, cpc, cimg, subLog,
                   outLog, sentOut, delivered>>

\* results_.push(output_type()), then process() returns
PushSentinel(s) ==
    /\ fpc[s] = "out"
    /\ CanPush(results_[s], limit_)
    /\ results_' = [results_ EXCEPT ![s] = Append(@, DefaultImage)]
    /\ sentOut' = [sentOut EXCEPT ![s] = @ + 1]
    /\ fpc' = [fpc EXCEPT ![s] =
                  IF fi[s] < numberOfDevices_ THEN "join" ELSE "done"]
    \* the loop counter is a local of process()
    /\ fi' = [fi EXCEPT ![s] = IF fi[s] < numberOfDevices_ THEN @ ELSE 0]
    /\ UNCHANGED <<recvVars, lossVars, offlineVars,
                   numberOfDevices_, pool, limit_, now, fetched, inp, q,
                   wpc, win, wout, lastDevice_, cpc, cimg, subLog, outLog,
                   delivered>>

\* --------------------------------------------------------------- processor
\* if(!sinogram.valid()) break;
WorkerExitsOnStop(s, img) ==
    ~img.valid \/ fpc[s] = "join" \/ (fpc[s] = "process" /\ ~inp[s].valid)
WorkerExits(s, img) == ~img.valid

\* the queue processor(deviceID) takes from: sinograms_[deviceID]
WorkerQueueZero(deviceID) == 0
WorkerQueue(deviceID) == deviceID

\* auto sinogram = sinograms_[deviceID].take()
Take(s, d) ==
    /\ wpc[s][d] = "take"
    /\ CanTake(q[s][WorkerQueue(d)])
    /\ q' = [q EXCEPT ![s][WorkerQueue(d)] = take(@).rest]
    /\ LET sinogram == take(q[s][WorkerQueue(d)]).item
       IN IF WorkerExits(s, sinogram)
          THEN /\ wpc' = [wpc EXCEPT ![s][d] = "done"]
               /\ pool' = Destructor(pool, sinogram)
               /\ win' = win
          ELSE /\ wpc' = [wpc EXCEPT ![s][d] = "request"]
               /\ pool' = pool
               /\ win' = [win EXCEPT ![s][d] = sinogram]
    /\ UNCHANGED <<recvVars, lossVars, offlineVars,
                   numberOfDevices_, limit_, now, fetched, fpc, fi, inp,
                   results_, wout, lastDevice_, cpc, cimg, subLog, outLog,
                   sentOut, delivered>>

\* the metadata a worker copies onto the recycled output Image
CopyMetaNoIdx(s, img, sinogram, deviceID) ==
    LET m == setStart(setPlane(img, sinogram.plane), sinogram.start)
    IN IF s = "D2H" THEN m ELSE setDevice(m, deviceID)
CopyMetaNoDevice(s, img, sinogram, deviceID) ==
    setStart(setPlane(setIdx(img, SizeT(sinogram.index)), sinogram.plane),
             sinogram.start)
CopyMeta(s, img, sinogram, deviceID) ==
    LET m == setStart(setPlane(setIdx(img, SizeT(sinogram.index)), sinogram.plane),
                      sinogram.start)
    IN IF s = "D2H" THEN m ELSE setDevice(m, deviceID)

\* requestMemory(...) and the copy / kernel with its metadata
Request(s, d) ==
    /\ wpc[s][d] = "request"
    /\ FreeLen(pool, Reg(s, d)) > 0
    /\ LET rq == requestMemory(pool, Reg(s, d))
       IN /\ pool' = rq.pool
          /\ wout' = [wout EXCEPT ![s][d] = CopyMeta(s, rq.img, win[s][d], d)]
    /\ wpc' = [wpc EXCEPT ![s][d] = "push"]
    /\ UNCHANGED <<recvVars, lossVars, offlineVars,
                   numberOfDevices_, limit_, now, fetched, fpc, fi, inp, q,
                   results_, win, lastDevice_, cpc, cimg, subLog, outLog,
                   sentOut, delivered>>

\* results_.push(std::move(img)); then the loop body ends and the locals img
\* and sinogram are destroyed, in that order
Push(s, d) ==
    /\ wpc[s][d] = "push"
    /\ CanPush(results_[s], limit_)
    /\ LET mv == MoveCtor(wout[s][d])
       IN /\ results_' = [results_ EXCEPT ![s] = Append(@, mv.dst)]
          /\ outLog' = [outLog EXCEPT ![s][d] = Append(@, Entry(mv.dst))]
          /\ pool' = Destructor(Destructor(pool, mv.src), win[s][d])
    /\ win' = [win EXCEPT ![s][d] = DefaultImage]
    /\ wout' = [wout EXCEPT ![s][d] = DefaultImage]
    /\ wpc' = [wpc EXCEPT ![s][d] = "take"]
    /\ UNCHANGED <<recvVars, lossVars, offlineVars,
                   numberOfDevices_, limit_, now, fetched, fpc, fi, inp, q,
                   lastDevice_, cpc, cimg, subLog, sentOut, delivered>>

\* ------------------------------------------------------------------ writer
\* the consumer of the last stage takes the next result: wait()
WriterTake ==
    /\ cpc = "take"
    /\ CanTake(results_[LastStage])
    /\ cimg' = take(results_[LastStage]).item
    /\ results_' = [results_ EXCEPT ![LastStage] = take(@).rest]
    /\ delivered' = Append(delivered, Entry(take(results_[LastStage]).item))
    /\ cpc' = IF take(results_[LastStage]).item.valid THEN "drop" ELSE "done"
    /\ UNCHANGED <<recvVars, lossVars, offlineVars,
                   numberOfDevices_, pool, limit_, now, fetched, fpc, fi,
                   inp, q, wpc, win, wout, lastDevice_, subLog, outLog,
                   sentOut>>

\* the consumer destroys the Image it received
WriterDrop ==
    /\ cpc = "drop"
    /\ pool' = Destructor(pool, cimg)
    /\ cimg' = DefaultImage
    /\ cpc' = "take"
    /\ UNCHANGED <<recvVars, lossVars, offlineVars,
                   numberOfDevices_, limit_, now, fetched, fpc, fi, inp, q,
                   results_, wpc, win, wout, lastDevice_, subLog, outLog,
                   sentOut, delivered>>

\* ----------------------------------------------------------- constructors
CtorStages == {"Receiver", "H2D", "Attenuation", "D2H", "Template"}

\* the keys readConfig of a stage reads
RequiredKeys(st) ==
    CASE st = "Receiver" ->
           {"samplingRate", "numberOfFanDetectors", "scanRate",
            "inputBufferSize", "numberOfDetectorModules"}
      [] st = "H2D" ->
           {"number_of_fan_detectors", "mempoolsize_h2d", "sampling_rate",
            "scan_rate"}
      [] st = "Attenuation" ->
           {"number_of_fan_detectors", "number_of_det_modules",
            "number_of_reference_frames", "inputs.dark", "inputs.reference",
            "number_of_planes", "sampling_rate", "scan_rate",
            "source_offset", "xa", "xb", "xc", "xd", "xe", "xf",
            "lower_lim_offset", "upper_lim_offset",
            "blocksize_2d_attenutation", "mempoolsize_attenuation",
            "thresh_min", "thresh_max"}
      [] st = "D2H" -> {"number_of_pixels", "mempoolsize_d2h"}
      [] st = "Template" -> {"number_of_pixels"}

\* the subsets of S with at most n elements
RECURSIVE UpTo(_, _)
UpTo(S, n) ==
    IF n = 0 THEN {{}}
    ELSE LET prev == UpTo(S, n - 1)
         IN prev \cup {m \cup {k} : m \in prev, k \in S}

\* configuration files: the keys a stage reads, but for a few
ConfigsOf(st) ==
    {RequiredKeys(st) \ m : m \in UpTo(RequiredKeys(st), MaxMissing)}

EXIT_SUCCESS == 0
EXIT_FAILURE == 1

\* readConfig(): EXIT_FAILURE when a key cannot be read
readConfig(st, keys) ==
    IF RequiredKeys(st) \subseteq keys THEN EXIT_SUCCESS ELSE EXIT_FAILURE

\* the test that guards the throw: readConfig returns bool, and Template
\* tests !readConfig(...)
CtorThrows(st, rc) == IF st = "Template" THEN ~(rc # 0) ELSE rc # 0

\* the constructor registers with the MemoryPool: H2D and Attenuation once
\* per device, Receiver and D2H once, Template not at all
CtorRegistrations(st, K) ==
    CASE st \in {"H2D", "Attenuation"} -> K
      [] st \in {"Receiver", "D2H"} -> 1
      [] st = "Template" -> 0

\* if (readConfig(...)) throw std::runtime_error(...)
CtorReadConfig ==
    /\ ctor.pc = "start"
    /\ LET rc == readConfig(ctor.stage, ctor.keys)
       IN ctor' = [ctor EXCEPT
                     !.rc = rc,
                     !.thrown = CtorThrows(ctor.stage, rc),
                     !.pc = IF CtorThrows(ctor.stage, rc)
                            THEN "thrown" ELSE "register"]
    /\ UNCHANGED <<recvVars, lossVars, his, rates, qmap, unit,
                   numberOfDevices_, pool, limit_, now, fetched, fpc, fi,
                   inp, q, results_, wpc, win, wout, lastDevice_, cpc, cimg,
                   subLog, outLog, sentOut, delivered>>

\* registerStage(...) for every registration of the stage
CtorRegister ==
    /\ ctor.pc = "register"
    /\ ctor' = [ctor EXCEPT
                  !.registered = CtorRegistrations(ctor.stage, ctor.devices),
                  !.pc = "threads"]
    /\ UNCHANGED <<recvVars, lossVars, his, rates, qmap, unit,
                   numberOfDevices_, pool, limit_, now, fetched, fpc, fi,
                   inp, q, results_, wpc, win, wout, lastDevice_, cpc, cimg,
                   subLog, outLog, sentOut, delivered>>

\* the worker threads (Receiver: the module threads) are started
CtorThreads ==
    /\ ctor.pc = "threads"
    /\ ctor' = [ctor EXCEPT !.threads = ctor.devices, !.pc = "done"]
    /\ UNCHANGED <<recvVars, lossVars, his, rates, qmap, unit,
                   numberOfDevices_, pool, limit_, now, fetched, fpc, fi,
                   inp, q, results_, wpc, win, wout, lastDevice_, cpc, cimg,
                   subLog, outLog, sentOut, delivered>>

\* a constructor is called on a configuration file
InitCtor ==
    /\ limit_ = 0
    /\ Constructed
    /\ unit = UnitIdle
    /\ his = HisIdle
    /\ rates = RatesIdle
    /\ qmap = MapIdle
    /\ ctor \in {[stage |-> st, keys |-> ks, devices |-> numberOfDevices_,
                   pc |-> "start", rc |-> 0, thrown |-> FALSE,
                   registered |-> 0, threads |-> 0] :
                     st \in CtorStages, ks \in UNION {ConfigsOf(t) : t \in CtorStages}}
    /\ ctor.keys \in ConfigsOf(ctor.stage)

NextCtor == CtorReadConfig \/ CtorRegister \/ CtorThreads
SpecCtor == InitCtor /\ [][NextCtor]_vars

\* ------------------------------------------------------------- HIS loader
tn_not_implemented == -1
tn_unsigned_char == 2
tn_unsigned_short == 4
tn_dword == 32
tn_double == 64
tn_float == 128

\* the cases of the switch over header.type_of_numbers
SupportedDatatypes ==
    {tn_unsigned_char, tn_unsigned_short, tn_dword, tn_double, tn_float}

\* header.type_of_numbers of a file: every enumerator, and values that are
\* none of them
HeaderDatatypes == {tn_not_implemented} \cup SupportedDatatypes \cup {0, 8}

\* HIS::loadImage(path, index): TRUE when the returned Image is valid
HisLoads(h) ==
    IF ~h.open THEN FALSE
    ELSE IF ~h.fileTypeOk THEN FALSE
    ELSE IF ~h.headerSizeOk THEN FALSE
    ELSE IF h.typeOfNumbers = tn_not_implemented THEN FALSE
    ELSE IF h.numberOfFrames > 1 THEN FALSE
    ELSE IF h.typeOfNumbers \notin SupportedDatatypes THEN FALSE
    ELSE TRUE

\* the file could not be read as one projection: it cannot be opened, is no
\* HIS file, has a wrong header size, an unsupported datatype or more than
\* one frame
HisFailure(h) ==
    \/ ~h.open
    \/ ~h.fileTypeOk
    \/ ~h.headerSizeOk
    \/ h.typeOfNumbers \notin SupportedDatatypes
    \/ h.numberOfFrames > 1

HisLoadImage ==
    /\ his.pc = "start"
    /\ his' = [his EXCEPT !.valid = HisLoads(his), !.pc = "done"]
    /\ UNCHANGED <<recvVars, lossVars, ctor, rates, qmap, unit,
                   numberOfDevices_, pool, limit_, now, fetched, fpc, fi,
                   inp, q, results_, wpc, win, wout, lastDevice_, cpc, cimg,
                   subLog, outLog, sentOut, delivered>>

\* loadImage is called on a file
InitHIS ==
    /\ limit_ = 0
    /\ Constructed
    /\ unit = UnitIdle
    /\ ctor = CtorIdle
    /\ rates = RatesIdle
    /\ qmap = MapIdle
    /\ his \in [pc : {"start"}, open : BOOLEAN, fileTypeOk : BOOLEAN,
                headerSizeOk : BOOLEAN, typeOfNumbers : HeaderDatatypes,
                numberOfFrames : 0 .. MaxHisFrames, valid : {FALSE}]

NextHIS == HisLoadImage
SpecHIS == InitHIS /\ [][NextHIS]_vars

\* ---------------------------------------------------- projections per frame
INT_MAX == 2147483647
Million == 1000000
TwoTo16 == 65536
TwoTo15 == 32768

\* a * b does not fit an int (a, b positive)
MulOverflows(a, b) == a > INT_MAX \div b

\* a * b of two non-negative ints as a build that wraps around computes it:
\* the low 32 bits of the product, read as a two's complement int.  The
\* product is formed in 16-bit halves of a = ah * 2^16 + al.
MulWrap(a, b) ==
    LET al == a % TwoTo16
        ah == a \div TwoTo16
        low == al * (b % TwoTo16)
        lo == low % TwoTo16
        hi == (ah * (b % TwoTo16) + al * (b \div TwoTo16)
                 + low \div TwoTo16) % TwoTo16
    IN (IF hi >= TwoTo15 THEN hi - TwoTo16 ELSE hi) * TwoTo16 + lo

\* a / b of two ints, b > 0: the quotient is truncated towards zero
IntDiv(a, b) == IF a >= 0 THEN a \div b ELSE -((-a) \div b)

\* the stages whose readConfig computes the projections per frame
RateStages == {"Receiver", "H2D", "Attenuation"}
SamplingRates ==
    (1 .. SmallRate) \cup
    {INT_MAX \div Million + k : k \in 0 .. RateOver} \cup {2 * (INT_MAX \div Million) + 1}
ScanRates == {1, 7, 1000, 2000, Million}

\* numberOfProjections_ = sampling_rate * 1000000 / scan_rate, all int.  A
\* product that does not fit is undefined behaviour: the build wraps around
\* or traps.
ComputeProjections(trap) ==
    /\ rates.pc = "start"
    /\ LET over == MulOverflows(rates.sampling_rate, Million)
       IN /\ trap => over
          /\ rates' = [rates EXCEPT
                         !.pc = "done",
                         !.overflow = over,
                         !.trapped = trap,
                         !.numberOfProjections_ =
                             IF trap THEN 0
                             ELSE IntDiv(MulWrap(rates.sampling_rate, Million),
                                         rates.scan_rate)]
    /\ UNCHANGED <<recvVars, lossVars, ctor, his, qmap, unit,
                   numberOfDevices_, pool, limit_, now, fetched, fpc, fi,
                   inp, q, results_, wpc, win, wout, lastDevice_, cpc, cimg,
                   subLog, outLog, sentOut, delivered>>

\* readConfig has read sampling_rate and scan_rate
InitRates ==
    /\ limit_ = 0
    /\ Constructed
    /\ unit = UnitIdle
    /\ ctor = CtorIdle
    /\ his = HisIdle
    /\ qmap = MapIdle
    /\ rates \in [pc : {"start"}, stage : RateStages,
                  sampling_rate : SamplingRates, scan_rate : ScanRates,
                  overflow : {FALSE}, trapped : {FALSE},
                  numberOfProjections_ : {0}]

NextRates == \E trap \in BOOLEAN : ComputeProjections(trap)
SpecRates == InitRates /\ [][NextRates]_vars

\* ------------------------------------------------- the map of input queues
\* sinograms_ / imgs_ is a std::map<int, Queue>.  Its users are the thread
\* that calls process() and the K threads that run processor(deviceID); each
\* use is sinograms_[key], which looks the key up and inserts a new Queue
\* when the key is absent.
\* the users are numbered: processor(deviceID) is deviceID, and the thread
\* that calls process() is
MapCaller == -1
MapUsers == {MapCaller} \cup (0 .. (numberOfDevices_ - 1))
\* the same when cudaGetDeviceCount reports the most devices
MapThreads == {MapCaller} \cup Devices

\* the keys a user looks up: processor(deviceID) its own, process() the
\* device of the Image or, for the sentinel, every i < numberOfDevices_
MapKeysOf(t) == IF t = MapCaller THEN 0 .. (numberOfDevices_ - 1) ELSE {t}

\* another user is inside operator[]
MapBusy(t) == \E u \in MapUsers \ {t} : qmap.acc[u].pc # "idle"
\* another user is inserting
MapWriting(t) == \E u \in MapUsers \ {t} : qmap.acc[u].pc = "insert"

\* sinograms_[k]: operator[] begins
MapBegin(t, k) ==
    /\ t \in MapUsers
    /\ k \in MapKeysOf(t)
    /\ qmap.acc[t].pc = "idle"
    /\ qmap' = [qmap EXCEPT !.acc[t] = [pc |-> "lookup", key |-> k]]
    /\ UNCHANGED <<recvVars, lossVars, ctor, his, rates, unit,
                   numberOfDevices_, pool, limit_, now, fetched, fpc, fi,
                   inp, q, results_, wpc, win, wout, lastDevice_, cpc, cimg,
                   subLog, outLog, sentOut, delivered>>

\* the search of operator[]: a key that is present is returned, an absent
\* one is going to be inserted.  A search that runs while another thread
\* inserts is a data race: it can come out either way.
MapFind(t, found) ==
    /\ t \in MapUsers
    /\ qmap.acc[t].pc = "lookup"
    /\ ~MapWriting(t) => (found <=> qmap.acc[t].key \in qmap.keys)
    /\ qmap' = [qmap EXCEPT
                  !.acc[t].pc = IF found THEN "idle" ELSE "insert",
                  !.raced = @ \/ MapWriting(t)]
    /\ UNCHANGED <<recvVars, lossVars, ctor, his, rates, unit,
                   numberOfDevices_, pool, limit_, now, fetched, fpc, fi,
                   inp, q, results_, wpc, win, wout, lastDevice_, cpc, cimg,
                   subLog, outLog, sentOut, delivered>>

\* what the map holds after an insertion of k that raced with another use:
\* the new key, and any of the other keys may be lost
RaceOutcomes(keys, k) == {lost \cup {k} : lost \in SUBSET keys}

\* the insertion of operator[]
MapInsert(t, after) ==
    /\ t \in MapUsers
    /\ qmap.acc[t].pc = "insert"
    /\ after \in IF MapBusy(t)
                 THEN RaceOutcomes(qmap.keys, qmap.acc[t].key)
                 ELSE {qmap.keys \cup {qmap.acc[t].key}}
    /\ qmap' = [qmap EXCEPT
                  !.keys = after,
                  !.acc[t].pc = "idle",
                  !.raced = @ \/ MapBusy(t)]
    /\ UNCHANGED <<recvVars, lossVars, ctor, his, rates, unit,
                   numberOfDevices_, pool, limit_, now, fetched, fpc, fi,
                   inp, q, results_, wpc, win, wout, lastDevice_, cpc, cimg,
                   subLog, outLog, sentOut, delivered>>

\* the constructor of a stage has started the worker threads; it has
\* inserted nothing into the map
InitMap ==
    /\ limit_ = 0
    /\ Constructed
    /\ unit = UnitIdle
    /\ ctor = CtorIdle
    /\ his = HisIdle
    /\ rates = RatesIdle
    /\ qmap \in {[stage |-> s, keys |-> {},
                   acc |-> [t \in MapUsers |-> [pc |-> "idle", key |-> 0]],
                   raced |-> FALSE] : s \in Stages}

NextMap ==
    \/ \E t \in MapThreads, k \in Devices : MapBegin(t, k)
    \/ \E t \in MapThreads, found \in BOOLEAN : MapFind(t, found)
    \/ \E t \in MapThreads, after \in SUBSET Devices : MapInsert(t, after)
SpecMap == InitMap /\ [][NextMap]_vars

\* --------------------------------------------------------- Image operations
\* operator=(Image&& rhs) on the Image lhs: dst is lhs and src is rhs
\* afterwards; data_ = std::move(rhs.data_) releases the buffer lhs had
MoveAssign(lhs, rhs) ==
    [dst |-> rhs,
     src |-> [rhs EXCEPT !.valid = FALSE, !.data = NoBuf],
     released |-> IF lhs.data = NoBuf THEN {} ELSE {lhs.data}]

\* invalid(): valid_ = false
invalid(img) == [img EXCEPT !.valid = FALSE]

\* what ~Image() deallocates: a valid Image moves itself to the pool, the
\* pointer of any other Image frees the buffer it still has
Deallocated(img) == IF img.valid \/ img.data = NoBuf THEN {} ELSE {img.data}

Slots == {"a", "b"}
UnitRegs == {Reg("H2D", 0), Reg("D2H", 0)}

\* auto x = MemoryPool::instance()->requestMemory(r) into an empty slot
UnitRequest(x, r) ==
    /\ ~unit.img[x].valid /\ unit.img[x].data = NoBuf
    /\ FreeLen(pool, r) > 0
    /\ LET rq == requestMemory(pool, r)
       IN /\ pool' = rq.pool
          /\ unit' = [unit EXCEPT !.img[x] = rq.img]
    /\ UNCHANGED <<recvVars, lossVars, ctor, his, rates, qmap,
                   numberOfDevices_, limit_, now, fetched, fpc, fi, inp, q,
                   results_, wpc, win, wout, lastDevice_, cpc, cimg, subLog,
                   outLog, sentOut, delivered>>

\* x = std::move(y)
UnitMoveAssign(x, y) ==
    /\ x # y
    /\ unit.img[y].valid
    /\ LET mv == MoveAssign(unit.img[x], unit.img[y])
       IN unit' = [unit EXCEPT !.img[x] = mv.dst, !.img[y] = mv.src,
                               !.freed = @ \cup mv.released]
    /\ UNCHANGED <<recvVars, lossVars, ctor, his, rates, qmap,
                   numberOfDevices_, pool, limit_, now, fetched, fpc, fi,
                   inp, q, results_, wpc, win, wout, lastDevice_, cpc, cimg,
                   subLog, outLog, sentOut, delivered>>

\* x.invalid()
UnitInvalid(x) ==
    /\ unit.img[x].valid
    /\ unit' = [unit EXCEPT !.img[x] = invalid(@)]
    /\ UNCHANGED <<recvVars, lossVars, ctor, his, rates, qmap,
                   numberOfDevices_, pool, limit_, now, fetched, fpc, fi,
                   inp, q, results_, wpc, win, wout, lastDevice_, cpc, cimg,
                   subLog, outLog, sentOut, delivered>>

\* Image x(y): the copy gets a buffer that no other Image has
UnitCopy(x, y) ==
    /\ x # y
    /\ unit.copies < MaxCopies
    /\ ~unit.img[x].valid /\ unit.img[x].data = NoBuf
    /\ unit.img[y].valid
    /\ \A r \in Regs : \A j \in 1 .. Len(pool[r].used) :
          pool[r].used[j].data # CopyOf(unit.img[y].data)
    /\ unit' = [unit EXCEPT !.img[x] = CopyCtor(unit.img[y]).dst,
                            !.copies = @ + 1]
    /\ UNCHANGED <<recvVars, lossVars, ctor, his, rates, qmap,
                   numberOfDevices_, pool, limit_, now, fetched, fpc, fi,
                   inp, q, results_, wpc, win, wout, lastDevice_, cpc, cimg,
                   subLog, outLog, sentOut, delivered>>

\* x goes out of scope: ~Image()
UnitDestroy(x) ==
    /\ unit.img[x] # DefaultImage
    /\ pool' = Destructor(pool, unit.img[x])
    /\ unit' = [unit EXCEPT !.img[x] = DefaultImage,
                            !.freed = @ \cup Deallocated(unit.img[x])]
    /\ UNCHANGED <<recvVars, lossVars, ctor, his, rates, qmap,
                   numberOfDevices_, limit_, now, fetched, fpc, fi, inp, q,
                   results_, wpc, win, wout, lastDevice_, cpc, cimg, subLog,
                   outLog, sentOut, delivered>>

\* two Image variables and the pool as the stages registered it
InitImage ==
    /\ limit_ = 0
    /\ Constructed
    /\ ctor = CtorIdle /\ his = HisIdle /\ rates = RatesIdle
    /\ qmap = MapIdle
    /\ unit = [kind |-> "image", img |-> [x \in Slots |-> DefaultImage],
               freed |-> {}, copies |-> 0]

NextImage ==
    \/ \E x \in Slots, r \in UnitRegs : UnitRequest(x, r)
    \/ \E x \in Slots, y \in Slots : UnitMoveAssign(x, y)
    \/ \E x \in Slots : UnitInvalid(x)
    \/ \E x \in Slots, y \in Slots : UnitCopy(x, y)
    \/ \E x \in Slots : UnitDestroy(x)
SpecImage == InitImage /\ [][NextImage]_vars

\* ------------------------------------------ the copies of Receiver::loadImage
\* int numberOfDetectorsPerModule = 16
numberOfDetectorsPerModule == 16

\* the ring buffer of one module holds
\* bufferSize_ * (numberOfDetectors_ / numberOfDetectorModules_) * numberOfProjections_
RingElements(c) == c.bufferSize * (c.detectors \div c.modules) * c.projections
\* the sinogram holds numberOfDetectors_ * numberOfProjections_
SinoElements(c) == c.detectors * c.projections

\* the elements [from, to) that std::copy reads and writes for one module
CopyRange(c, index, detModInd) ==
    LET count == numberOfDetectorsPerModule * c.projections
        startIndex == (index % c.bufferSize) * count
    IN [rdFrom |-> startIndex, rdTo |-> startIndex + count,
        wrFrom |-> detModInd * count, wrTo |-> detModInd * count + count]

StripeConfigs ==
    [detectors : {8 * u : u \in 1 .. MaxDetUnits}, modules : 1 .. MaxModules,
     projections : 1 .. MaxProj, bufferSize : 1 .. MaxRing]

\* one pass of for(detModInd < numberOfDetectorModules_)
StripeCopy ==
    /\ unit.kind = "stripes"
    /\ unit.detModInd < unit.cfg.modules
    /\ unit' = [unit EXCEPT
                  !.copies = Append(@, CopyRange(unit.cfg, unit.index,
                                                 unit.detModInd)),
                  !.detModInd = @ + 1]
    /\ UNCHANGED exceptUnit

\* loadImage after fetch() returned index, before the first copy
InitStripes ==
    /\ limit_ = 0
    /\ Constructed
    /\ ctor = CtorIdle /\ his = HisIdle /\ rates = RatesIdle
    /\ qmap = MapIdle
    /\ \E c \in StripeConfigs, k \in 0 .. MaxRing :
          unit = [kind |-> "stripes", cfg |-> c, index |-> k,
                  detModInd |-> 0, copies |-> << >>]

NextStripes == StripeCopy
SpecStripes == InitStripes /\ [][NextStripes]_vars

\* ------------------------------------------- Attenuation::computeAverage
\* readInput stores frame i of plane planeInd as block planeInd + i * planes
\* of values: the plane a block belongs to
PlaneOfBlock(c, block) == block % c.planes

\* the element of values that computeAverage adds for (i, planeInd, index)
AverageSource(c, i, planeInd, index) == (i + planeInd) * c.elems + index
\* the element of average it is added to
AverageTarget(c, planeInd, index) == index + planeInd * c.elems

AverageConfigs ==
    [frames : 1 .. MaxRefFrames, planes : 1 .. MaxPlanes,
     elems : 1 .. MaxElems]

\* one pass of the innermost loop of computeAverage, and the loop counters
AverageStep ==
    /\ unit.kind = "average"
    /\ unit.i < unit.cfg.frames
    /\ LET c == unit.cfg
           lastIndex == unit.index = c.elems - 1
           lastPlane == unit.planeInd = c.planes - 1
       IN unit' = [unit EXCEPT
                     !.adds = @ \cup
                         {<<AverageTarget(c, unit.planeInd, unit.index),
                            AverageSource(c, unit.i, unit.planeInd,
                                          unit.index)>>},
                     !.index = IF lastIndex THEN 0 ELSE @ + 1,
                     !.planeInd = IF ~lastIndex THEN @
                                  ELSE IF lastPlane THEN 0 ELSE @ + 1,
                     !.i = IF lastIndex /\ lastPlane THEN @ + 1 ELSE @]
    /\ UNCHANGED exceptUnit

\* computeAverage after average.resize, values as readInput left them
InitAverage ==
    /\ limit_ = 0
    /\ Constructed
    /\ ctor = CtorIdle /\ his = HisIdle /\ rates = RatesIdle
    /\ qmap = MapIdle
    /\ \E c \in AverageConfigs :
          unit = [kind |-> "average", cfg |-> c, i |-> 0, planeInd |-> 0,
                  index |-> 0, adds |-> {}]

NextAverage == AverageStep
SpecAverage == InitAverage /\ [][NextAverage]_vars

\* ------------------------------------------------------------- OutputSide
\* port_ of an OutputSide nothing was attached to
nullptr == 0
Ports == 1 .. MaxPorts

\* port_ = std::move(port), with the mistake of keeping a port once attached
attachKeepsFirst(port_, port) == IF port_ = nullptr THEN port ELSE port_
\* port_ = std::move(port)
attach(port_, port) == port

\* Port::forward(out): the port receives out
forward(recv, port, out) == [recv EXCEPT ![port] = Append(@, out)]

\* output(out): throws without a port, else forwards out through port_
Output(out) ==
    /\ unit.kind = "port"
    /\ Len(unit.log) < MaxCalls
    /\ unit' = IF unit.port_ = nullptr
               THEN [unit EXCEPT !.thrown = @ + 1,
                                 !.log = Append(@, [op |-> "output",
                                                    arg |-> out])]
               ELSE [unit EXCEPT !.recv = forward(@, unit.port_, out),
                                 !.log = Append(@, [op |-> "output",
                                                    arg |-> out])]
    /\ UNCHANGED exceptUnit

\* attach(port)
Attach(port) ==
    /\ unit.kind = "port"
    /\ Len(unit.log) < MaxCalls
    /\ unit' = [unit EXCEPT !.port_ = attach(@, port),
                            !.log = Append(@, [op |-> "attach",
                                               arg |-> port])]
    /\ UNCHANGED exceptUnit

\* a default-constructed OutputSide: port_ is empty
InitPort ==
    /\ limit_ = 0
    /\ Constructed
    /\ ctor = CtorIdle /\ his = HisIdle /\ rates = RatesIdle
    /\ qmap = MapIdle
    /\ unit = [kind |-> "port", port_ |-> nullptr,
               recv |-> [p \in Ports |-> << >>], thrown |-> 0,
               log |-> << >>]

NextPort ==
    \/ \E out \in 1 .. MaxItems : Output(out)
    \/ \E port \in Ports : Attach(port)
SpecPort == InitPort /\ [][NextPort]_vars

\* ----------------------------------------------------------------- Volume
\* Volume(): no buffer, not valid
DefaultVolume ==
    [width |-> 0, height |-> 0, depth |-> 0, data |-> NoBuf, valid |-> FALSE]

\* Volume(w, h, d): a buffer of w * h * d elements, here holding 1 .. w*h*d
NewVolume(w, h, d) ==
    [width |-> w, height |-> h, depth |-> d,
     data |-> [k \in 1 .. w * h * d |-> k], valid |-> TRUE]

\* Image(size, idx, planeID, img_data)
ImageOf(size, idx, planeID, img_data) ==
    [DefaultImage EXCEPT !.valid = TRUE, !.size = size, !.index = idx,
                         !.plane = planeID, !.data = img_data]

\* the width_ * height_ elements std::copy takes from slicePtr
Slice(vol, i) ==
    LET sliceIdx == i * vol.width * vol.height
    IN SubSeq(vol.data, sliceIdx + 1, sliceIdx + vol.width * vol.height)

\* operator[](i): throws for i >= depth_, else
\* Image{width_, height_, i, std::move(ptr)} with ptr the copied slice
VolumeAt(vol, i) ==
    IF i >= vol.depth
    THEN [thrown |-> TRUE, img |-> DefaultImage]
    ELSE [thrown |-> FALSE,
          img |-> ImageOf(vol.width, vol.height, i, Slice(vol, i))]

\* Volume(Volume&& other): dst is the new Volume, src is other afterwards
VolumeMoveCtor(other) ==
    [dst |-> other, src |-> [other EXCEPT !.data = NoBuf]]

\* operator=(Volume&& rhs): dst is *this, src is rhs afterwards
VolumeMoveAssign(rhs) ==
    [dst |-> rhs, src |-> [rhs EXCEPT !.data = NoBuf, !.valid = FALSE]]

NoCall == [op |-> "none"]

\* Volume x(w, h, d)
VolMake(x, w, h, d) ==
    /\ unit.kind = "volume"
    /\ unit.vol[x] = DefaultVolume
    /\ unit' = [unit EXCEPT !.vol[x] = NewVolume(w, h, d),
                            !.moved = @ \ {x}, !.last = NoCall]
    /\ UNCHANGED exceptUnit

\* x[i] on a Volume that has its buffer
VolIndex(x, i) ==
    /\ unit.kind = "volume"
    /\ unit.vol[x].data # NoBuf
    /\ unit' = [unit EXCEPT
                  !.last = [op |-> "index", slot |-> x, i |-> i,
                            before |-> unit.vol[x],
                            result |-> VolumeAt(unit.vol[x], i)]]
    /\ UNCHANGED exceptUnit

\* Volume x(std::move(y))
VolMoveCtor(x, y) ==
    /\ unit.kind = "volume"
    /\ x # y
    /\ unit.vol[x] = DefaultVolume
    /\ unit.vol[y].data # NoBuf
    /\ LET mv == VolumeMoveCtor(unit.vol[y])
       IN unit' = [unit EXCEPT !.vol[x] = mv.dst, !.vol[y] = mv.src,
                               !.moved = (@ \ {x}) \cup {y},
                               !.last = NoCall]
    /\ UNCHANGED exceptUnit

\* x = std::move(y)
VolMoveAssign(x, y) ==
    /\ unit.kind = "volume"
    /\ x # y
    /\ unit.vol[y].data # NoBuf
    /\ LET mv == VolumeMoveAssign(unit.vol[y])
       IN unit' = [unit EXCEPT !.vol[x] = mv.dst, !.vol[y] = mv.src,
                               !.moved = (@ \ {x}) \cup {y},
                               !.last = NoCall]
    /\ UNCHANGED exceptUnit

\* x goes out of scope and a new Volume x is declared
VolDrop(x) ==
    /\ unit.kind = "volume"
    /\ unit.vol[x] # DefaultVolume
    /\ unit' = [unit EXCEPT !.vol[x] = DefaultVolume, !.moved = @ \ {x},
                            !.last = NoCall]
    /\ UNCHANGED exceptUnit

\* two default-constructed Volumes
InitVolume ==
    /\ limit_ = 0
    /\ Constructed
    /\ ctor = CtorIdle /\ his = HisIdle /\ rates = RatesIdle
    /\ qmap = MapIdle
    /\ unit = [kind |-> "volume", vol |-> [x \in Slots |-> DefaultVolume],
               moved |-> {}, last |-> NoCall]

NextVolume ==
    \/ \E x \in Slots, w \in 1 .. MaxSide, h \in 1 .. MaxSide,
          d \in 1 .. MaxDepth : VolMake(x, w, h, d)
    \/ \E x \in Slots, i \in 0 .. MaxDepth : VolIndex(x, i)
    \/ \E x \in Slots, y \in Slots : VolMoveCtor(x, y)
    \/ \E x \in Slots, y \in Slots : VolMoveAssign(x, y)
    \/ \E x \in Slots : VolDrop(x)
SpecVolume == InitVolume /\ [][NextVolume]_vars

\* ------------------------------------------------- input after the sentinel
\* the source calls loadImage() and H2D::process() again although
\* process(sentinel) has returned
LoadAgain ==
    /\ fpc["H2D"] = "done"
    /\ fpc' = [fpc EXCEPT !["H2D"] = "wait"]
    /\ UNCHANGED <<recvVars, lossVars, offlineVars,
                   numberOfDevices_, pool, limit_, now, fetched, fi, inp, q,
                   results_, wpc, win, wout, lastDevice_, cpc, cimg, subLog,
                   outLog, sentOut, delivered>>

\* process() of a stage that routes by device() is called with a valid
\* Image that some other producer tagged with the device dev
Foreign(s, dev) ==
    /\ s # "H2D"
    /\ fpc[s] = "process"
    /\ inp[s].valid
    /\ inp[s].device # dev
    /\ inp' = [inp EXCEPT ![s] = setDevice(@, dev)]
    /\ UNCHANGED <<recvVars, lossVars, offlineVars,
                   numberOfDevices_, pool, limit_, now, fetched, fpc, fi, q,
                   results_, wpc, win, wout, lastDevice_, cpc, cimg, subLog,
                   outLog, sentOut, delivered>>

Next ==
    \/ \E k \in FetchValues : LoadFrame(k, 0, MaxFrames)
    \/ LoadSentinel
    \/ \E s \in Stages : Wait(s)
    \/ \E s \in Stages : ProcessValid(s)
    \/ \E s \in Stages : Broadcast(s)
    \/ \E s \in Stages : Join(s)
    \/ \E s \in Stages : PushSentinel(s)
    \/ \E s \in Stages, d \in Devices : Take(s, d)
    \/ \E s \in Stages, d \in Devices : Request(s, d)
    \/ \E s \in Stages, d \in Devices : Push(s, d)
    \/ WriterTake
    \/ WriterDrop

Spec == Init /\ [][Next]_vars

\* the pipeline with a source that goes on after the sentinel
NextLate == Next \/ LoadAgain
SpecLate == Init /\ [][NextLate]_vars

\* the pipeline with Images whose device() was set by another producer
NextForeign == Next \/ \E s \in Stages, dev \in Devices : Foreign(s, dev)
SpecForeign == Init /\ [][NextForeign]_vars

\* the front end alone: the Receiver and the thread that calls
\* H2D::process(), with longer runs and module threads that run ahead
NextFront ==
    \/ \E k \in FrontValues, lag \in 0 .. MaxLag :
          LoadFrame(k, lag, FrontFrames)
    \/ LoadSentinel
    \/ ProcessValid("H2D")
SpecFront == Init /\ [][NextFront]_vars

\* bounded queues; a thread that can take a step eventually takes one
SpecFair == InitBounded /\ [][Next]_vars /\ WF_vars(Next)

\* ------------------------------------------------------------ observation
Workers == 0 .. (numberOfDevices_ - 1)

\* number of entries of a log that satisfy a condition
NumValid(log) == Cardinality({i \in 1 .. Len(log) : log[i].valid})
NumSentinel(log) == Cardinality({i \in 1 .. Len(log) : ~log[i].valid})
NumIndex(log, k) ==
    Cardinality({i \in 1 .. Len(log) : log[i].valid /\ log[i].index = k})

\* the valid entries of a log, in order
ValidOnly(log) == SelectSeq(log, LAMBDA e : e.valid)

IsPrefix(a, b) == Len(a) <= Len(b) /\ a = SubSeq(b, 1, Len(a))

\* frame indices a stage has seen or produced
IndicesOf(s) ==
    UNION {{subLog[s][d][i].index : i \in 1 .. Len(subLog[s][d])} \cup
           {outLog[s][d][i].index : i \in 1 .. Len(outLog[s][d])} : d \in Devices}

\* sum of f[d] over the devices 0 .. n-1
RECURSIVE SumTo(_, _)
SumTo(f, n) == IF n = 0 THEN 0 ELSE f[n - 1] + SumTo(f, n - 1)

Submitted(s, k) == SumTo([d \in Devices |-> NumIndex(subLog[s][d], k)], NumDevices)
Produced(s, k) == SumTo([d \in Devices |-> NumIndex(outLog[s][d], k)], NumDevices)
TotalProduced(s) ==
    SumTo([d \in Devices |-> Len(outLog[s][d])], NumDevices)
TotalSubmitted(s) ==
    SumTo([d \in Devices |-> NumValid(subLog[s][d])], NumDevices)

\* every Image that lives outside the pool, with the place it lives at
Live ==
    {[at |-> <<"inp", s, 0, 0>>, img |-> inp[s]] : s \in Stages}
      \cup {[at |-> <<"win", s, d, 0>>, img |-> win[s][d]] :
               s \in Stages, d \in Devices}
      \cup {[at |-> <<"wout", s, d, 0>>, img |-> wout[s][d]] :
               s \in Stages, d \in Devices}
      \cup UNION {{[at |-> <<"q", s, d, i>>, img |-> q[s][d][i]] :
                      i \in 1 .. Len(q[s][d])} : s \in Stages, d \in Devices}
      \cup UNION {{[at |-> <<"res", s, 0, i>>, img |-> results_[s][i]] :
                      i \in 1 .. Len(results_[s])} : s \in Stages}
      \cup {[at |-> <<"cimg", LastStage, 0, 0>>, img |-> cimg]}

ValidLive == {x \in Live : x.img.valid}

\* b is one of the buffers registerStage allocated
IsBuffer(b) ==
    /\ Len(b) = 3
    /\ <<b[1], b[2]>> \in Regs
    /\ b[3] \in 1 .. RegCount(<<b[1], b[2]>>, numberOfDevices_)
RegOf(b) == <<b[1], b[2]>>

\* buffer b is on the free list of its registration
OnFreeList(b) ==
    \/ b[3] <= pool[RegOf(b)].fresh
    \/ \E j \in 1 .. Len(pool[RegOf(b)].used) : pool[RegOf(b)].used[j].data = b

\* number of valid Images outside the pool that belong to registration r
ImagesOf(live, r) ==
    Cardinality({x \in live : x.img.mgr = r[1] /\ x.img.memoryPoolIndex = r[2]})

\* frame index of the i-th Image H2D::process() handled: it went to the
\* queue of device (i - 1) % K as the Image number (i - 1) \div K + 1
HandledIndex(i) ==
    subLog["H2D"][(i - 1) % numberOfDevices_]
          [((i - 1) \div numberOfDevices_) + 1].index

\* highest frame index H2D::process() has seen
HighestSeen ==
    CHOOSE m \in {HandledIndex(i) : i \in 1 .. count_} :
        \A i \in 1 .. count_ : HandledIndex(i) <= m

\* the sentinel has reached H2D::process(): the run of the front end is over
EndOfRun == fpc["H2D"] = "process" /\ ~inp["H2D"].valid

\* ------------------------------------------------------------------ claims
\* C1: once a stage has pushed the sentinel to results_, no worker of that
\* stage pushes a valid Image to results_ afterwards, and in results_ no
\* valid Image is queued behind a sentinel.
C1_SentinelLast ==
    [][\A s \in Stages :
          /\ sentOut[s] > 0 => outLog'[s] = outLog[s]
          /\ \A i \in 1 .. Len(results_'[s]) : \A j \in 1 .. Len(results_'[s]) :
                (i < j /\ ~results_'[s][i].valid) => ~results_'[s][j].valid]_vars

\* a stage has pushed its sentinel after it produced a valid output
C1_Witness ==
    \E s \in Stages : sentOut[s] = 1 /\ TotalProduced(s) >= 1

\* C2: a stage that got one sentinel pushes at most one sentinel to each of
\* its K worker queues and to results_, and exactly one to each once
\* process() has returned; queues of devices that do not exist get none.
C2_OneSentinel ==
    \A s \in Stages :
        /\ sentOut[s] <= 1
        /\ \A d \in Devices : NumSentinel(subLog[s][d]) <= 1
        /\ \A d \in Devices \ Workers : subLog[s][d] = << >>
        /\ fpc[s] = "done" =>
              /\ sentOut[s] = 1
              /\ \A d \in Workers : NumSentinel(subLog[s][d]) = 1

\* the sentinel was the very first input and went through the whole chain
\* of stages with more than one worker: the writer received only the sentinel
C2_Witness ==
    /\ numberOfDevices_ > 1
    /\ \A s \in Stages : fpc[s] = "done" /\ TotalSubmitted(s) = 0
    /\ cpc = "done"
    /\ Len(delivered) = 1
    /\ ~delivered[1].valid

C4_FifoPerDevice ==
    \A s \in Stages : \A d \in Devices :
        IsPrefix([i \in 1 .. Len(outLog[s][d]) |-> outLog[s][d][i].start],
                 [i \in 1 .. Len(ValidOnly(subLog[s][d])) |->
                      ValidOnly(subLog[s][d])[i].start])

\* one worker has output two Images that went through the same queue
C4_Witness ==
    \E s \in Stages : \E d \in Devices :
        /\ Len(outLog[s][d]) >= 2
        /\ outLog[s][d][1].start < outLog[s][d][2].start

\* C5: every buffer is on the free list of its registration or owned by
\* exactly one valid Image, never both and never neither: a valid Image
\* owns a buffer that is not on a free list, no two valid Images own the
\* same buffer, no buffer is twice on a free list, and the free and the
\* owned buffers of a registration are as many as it was registered with.
C5_BufferOwnedOnce ==
    LET ValidNow == ValidLive IN
    /\ \A x \in ValidNow : IsBuffer(x.img.data) /\ ~OnFreeList(x.img.data)
    /\ \A x \in ValidNow : \A y \in ValidNow :
          x.at # y.at => x.img.data # y.img.data
    /\ \A r \in Regs :
          /\ \A i \in 1 .. Len(pool[r].used) :
                /\ IsBuffer(pool[r].used[i].data)
                /\ RegOf(pool[r].used[i].data) = r
                /\ pool[r].used[i].data[3] > pool[r].fresh
                /\ \A j \in 1 .. Len(pool[r].used) :
                      i # j => pool[r].used[i].data # pool[r].used[j].data
          /\ FreeLen(pool, r)
                + Cardinality({x \in ValidNow : RegOf(x.img.data) = r})
                = RegCount(r, numberOfDevices_)

\* a recycled buffer is in use again while Images wait in queues
C5_Witness ==
    /\ \E r \in Regs : pool[r].fresh = 0 /\ Len(pool[r].used) > 0
    /\ \E s \in Stages : \E d \in Devices :
          Len(q[s][d]) > 0 /\ Head(q[s][d]).valid
    /\ \E s \in Stages : Len(results_[s]) > 0 /\ Head(results_[s]).valid

\* C6: the number of valid Images of a registration never exceeds the number
\* of buffers it was registered with, and while the free list is empty a
\* requester stays blocked.
C6_NeverAllocates ==
    /\ [](LET ValidNow == ValidLive
          IN \A r \in Regs :
                ImagesOf(ValidNow, r) <= RegCount(r, numberOfDevices_))
    /\ [][\A s \in Stages : \A d \in Devices :
             (wpc[s][d] = "request" /\ FreeLen(pool, Reg(s, d)) = 0)
                => (wpc'[s][d] = "request" /\ ~wout'[s][d].valid)]_vars

\* both D2H workers want the single buffer: one holds it, the other waits
C6_Witness ==
    \E d \in Devices : \E e \in Devices :
        /\ d # e
        /\ RegCount(Reg("D2H", 0), numberOfDevices_) = 1
        /\ wpc["D2H"][d] = "push"
        /\ wpc["D2H"][e] = "request"
        /\ FreeLen(pool, Reg("D2H", 0)) = 0

\* C7: with bounded queues and at least one buffer per registration, every
\* frame the Receiver loaded and the sentinel eventually reach the writer,
\* and process(sentinel) has returned in every stage.
C7_Progress ==
    <>(/\ cpc = "done"
       /\ \A s \in Stages : fpc[s] = "done"
       /\ NumValid(delivered) = fetched
       /\ NumSentinel(delivered) = 1)

\* the writer is done after as many frames as the bounds allow, with more
\* frames than a registration has buffers and than a queue has room
C7_Witness ==
    /\ cpc = "done"
    /\ limit_ > 0
    /\ NumValid(delivered) = MaxFrames
    /\ MaxFrames > limit_
    /\ \E r \in Regs : pool[r].fresh = 0 /\ Len(pool[r].used) >= 1

C9_RequestThenDestroy ==
    \A r \in Regs :
        FreeLen(pool, r) > 0 =>
            LET rq == requestMemory(pool, r)
                direct == Destructor(rq.pool, rq.img)
                mv == MoveCtor(rq.img)
                moved == Destructor(Destructor(rq.pool, mv.src), mv.dst)
            IN /\ FreeLen(rq.pool, r) = FreeLen(pool, r) - 1
               /\ FreeLen(direct, r) = FreeLen(pool, r)
               /\ FreeLen(moved, r) = FreeLen(pool, r)
               /\ \A o \in Regs \ {r} :
                     direct[o] = pool[o] /\ moved[o] = pool[o]

\* the pipeline has run dry: every Image that was requested has been
\* destroyed, and every registration has all its buffers back
C9_Witness ==
    /\ cpc = "done"
    /\ Len(delivered) >= 2
    /\ \A r \in Regs : FreeLen(pool, r) = RegCount(r, numberOfDevices_)

\* C10: the output Image a worker is about to push carries the frame index,
\* plane and start of its input; H2D and Attenuation also set the device.
C10_MetadataCopied ==
    \A s \in Stages : \A d \in Devices :
        wpc[s][d] = "push" =>
            /\ wout[s][d].valid /\ win[s][d].valid
            /\ wout[s][d].index = win[s][d].index
            /\ wout[s][d].plane = win[s][d].plane
            /\ wout[s][d].start = win[s][d].start
            /\ s # "D2H" => wout[s][d].device = d

\* a worker is about to push an output in the only buffer of its
\* registration, which carried a frame with another index before
C10_Witness ==
    \E s \in Stages : \E d \in Devices : \E e \in Devices :
        /\ wpc[s][d] = "push"
        /\ RegCount(Reg(s, d), numberOfDevices_) = 1
        /\ Reg(s, e) = Reg(s, d)
        /\ Len(outLog[s][e]) >= 1
        /\ outLog[s][e][1].index # wout[s][d].index

\* C11: once process() of a stage has handled the sentinel and joined its
\* workers, a valid Image passed to process() is not accepted: no valid
\* Image is in a worker queue of that stage, where no worker would take it
\* and its buffer would stay away from the pool.
C11_LateInputRejected ==
    \A s \in Stages : \A d \in Devices :
        sentOut[s] >= 1 =>
            \A i \in 1 .. Len(q[s][d]) : ~q[s][d][i].valid

\* C12: loadImage emits no sinogram for a frame whose ring-buffer slot has
\* been overwritten: the sinogram it returned last holds the samples that
\* were written for its own frame index.
C12_NoStaleSinogram ==
    lastLoad.index # NoIndex => lastLoad.samples = lastLoad.index

\* C13: the frame indices of the Images that successive loadImage() calls
\* return never go backwards: the Image just returned has an index that is
\* not below the index of the Image H2D handled before it.
C13_IndicesNonDecreasing ==
    [][(count_ > 0 /\ fetched' = fetched + 1)
          => lastIndex_ <= inp'["H2D"].index]_vars

\* C14: whatever number_of_planes is configured, every valid Image the
\* Receiver emits and every Image the writer receives has
\* plane = index mod number_of_planes.
C14_PlaneIsIndexModPlanes ==
    \A np \in 1 .. MaxPlanes :
        /\ inp["H2D"].valid => inp["H2D"].plane = inp["H2D"].index % np
        /\ \A i \in 1 .. Len(delivered) :
              delivered[i].valid =>
                  delivered[i].plane = delivered[i].index % np

\* C15: after every valid Image H2D::process() handled, the loss counter is
\* the highest frame index seen minus the number of frames forwarded.
C15_LostIsHighestMinusCount ==
    count_ > 0 => lostSinos_ = HighestSeen - count_

\* C16: while the frames 0, 1, ..., n-1 have arrived in this order, the
\* loss counter is 0.
C16_ContiguousNoLoss ==
    (count_ > 0 /\ \A i \in 1 .. count_ : HandledIndex(i) = i - 1)
        => lostSinos_ = 0

\* C17: when only the even frame indices 0, 2, 4, ... were produced and
\* forwarded in order, the loss counter is 0 at the end of the run.
C17_GapsAreNoLoss ==
    (/\ EndOfRun
     /\ count_ > 0
     /\ \A i \in 1 .. count_ : HandledIndex(i) = 2 * (i - 1))
        => lostSinos_ = 0

\* the even frames 0, 2, 4 were forwarded in order and the run is over, and
\* the loss counter has counted the frames 1 and 3 that never existed
C17_Witness ==
    /\ EndOfRun
    /\ count_ = 3
    /\ \A i \in 1 .. count_ : HandledIndex(i) = 2 * (i - 1)
    /\ lostSinos_ = 1

\* C18: no call of process() decreases the loss counter or wraps it around.
C18_LossCounterMonotone == [][lostSinos_' >= lostSinos_]_vars

\* C19: a stage constructor throws if and only if a key its readConfig
\* reads is missing, and when it has thrown it has registered nothing with
\* the MemoryPool and started no thread.
C19_ThrowsIffKeyMissing ==
    ctor.pc \in {"thrown", "register", "threads", "done"} =>
        /\ ctor.thrown <=> ~(RequiredKeys(ctor.stage) \subseteq ctor.keys)
        /\ ctor.thrown => (ctor.registered = 0 /\ ctor.threads = 0)

\* C20: an invalid Image only signals the end of the stream; no operation
\* reports a failure by returning one, so a file that could not be read does
\* not make HIS::loadImage return an invalid Image.
C20_InvalidOnlyAtEnd ==
    (his.pc = "done" /\ ~his.valid) => ~HisFailure(his)

\* C21: Attenuation and D2H enqueue a valid Image only to the worker queue
\* of its own device(), so worker d only holds Images with device() = d; and
\* the Image an H2D or Attenuation worker d is about to output has
\* device() = d.
C21_StaysOnDevice ==
    \A d \in Devices :
        /\ \A s \in {"Att", "D2H"} :
              /\ \A i \in 1 .. Len(q[s][d]) :
                    q[s][d][i].valid => q[s][d][i].device = d
              /\ win[s][d].valid => win[s][d].device = d
        /\ \A s \in {"H2D", "Att"} :
              wpc[s][d] = "push" => (wout[s][d].valid /\ wout[s][d].device = d)

\* the second frame went to device 1 in H2D and has arrived at the D2H
\* worker of device 1
C21_Witness ==
    /\ numberOfDevices_ = 2
    /\ win["D2H"][1].valid
    /\ Len(outLog["Att"][1]) >= 1

\* C22: the Images successive wait() calls return are the Images pushed to
\* results_, in the same order and each once: results_ only grows at its
\* back, and a wait() returns only when results_ is not empty, returns its
\* oldest Image and removes exactly that one.
C22_WaitIsFifo ==
    [][\A s \in Stages :
          LET returned == IF s = LastStage
                          THEN cpc = "take" /\ cpc' # "take"
                          ELSE \E t \in Stages :
                                  /\ Upstream(t) = s
                                  /\ fpc[t] = "wait" /\ fpc'[t] = "process"
              image == IF s = LastStage
                       THEN cimg'
                       ELSE inp'[CHOOSE t \in Stages : Upstream(t) = s]
          IN IF returned
             THEN /\ Len(results_[s]) > 0
                  /\ image = Head(results_[s])
                  /\ results_'[s] = Tail(results_[s])
             ELSE \/ results_'[s] = results_[s]
                  \/ /\ Len(results_'[s]) = Len(results_[s]) + 1
                     /\ SubSeq(results_'[s], 1, Len(results_[s])) = results_[s]
      ]_vars

\* a wait() has just returned a valid Image while another valid Image was
\* queued behind it in the same results_
C22_Witness ==
    \E t \in Stages :
        /\ t # "H2D"
        /\ fpc[t] = "process"
        /\ inp[t].valid
        /\ Len(results_[Upstream(t)]) >= 1
        /\ Head(results_[Upstream(t)]).valid
        /\ inp[t].start < Head(results_[Upstream(t)]).start

\* C23: copy-constructing from a valid Image gives a valid Image with the
\* same size, index, plane and elements in a buffer of its own, freshly
\* allocated, and leaves the source valid and as it was.
C23_CopyIsDeep ==
    \A x \in ValidLive :
        LET cp == CopyCtor(x.img)
        IN /\ cp.dst.valid
           /\ cp.dst.size = x.img.size
           /\ cp.dst.index = x.img.index
           /\ cp.dst.plane = x.img.plane
           /\ Elements(cp.dst.data) = Elements(x.img.data)
           /\ cp.dst.data # x.img.data
           /\ ~IsBuffer(cp.dst.data)
           /\ \A y \in ValidLive : cp.dst.data # y.img.data
           /\ cp.src = x.img
           /\ cp.src.valid

\* a valid Image with a frame index and a plane other than 0 is held by a
\* D2H worker, in a buffer of the pool
C23_Witness ==
    \E d \in Devices :
        /\ wout["D2H"][d].valid
        /\ wout["D2H"][d].index = 1
        /\ wout["D2H"][d].plane = 1
        /\ IsBuffer(wout["D2H"][d].data)

\* C24: a call of loadImage() either gets the shutdown value, requests no
\* buffer and returns the sentinel, or gets a frame index, requests exactly
\* one buffer of the Receiver's registration and returns a valid Image whose
\* index is the value it fetched.
C24_SentinelOnlyOnShutdown ==
    [][(fpc["H2D"] = "wait" /\ fpc'["H2D"] = "process") =>
          IF inp'["H2D"].valid
          THEN /\ published' # published
               /\ FreeLen(pool', Reg("Recv", 0))
                     = FreeLen(pool, Reg("Recv", 0)) - 1
               /\ SizeT(inp'["H2D"].index) = published'
          ELSE /\ published' = published
               /\ pool' = pool
               /\ inp'["H2D"].data = NoBuf
      ]_vars

\* C25: the frame index read back from an Image by index() is the 64-bit
\* index the Receiver stored with setIdx, for every value below 2^64.
C25_IndexRoundTrip ==
    (fpc["H2D"] = "process" /\ inp["H2D"].valid) =>
        SizeT(inp["H2D"].index) = lastLoad.index

\* C26: for every sampling_rate and scan_rate > 0 the projections per frame
\* that Receiver, H2D and Attenuation compute are the integer quotient of
\* sampling_rate * 10^6 by scan_rate, and no intermediate result overflows
\* an int.
C26_ProjectionsExact ==
    rates.pc = "done" =>
        /\ ~rates.overflow
        /\ ~rates.trapped
        /\ LET rest == rates.sampling_rate * Million
                          - rates.numberOfProjections_ * rates.scan_rate
           IN 0 <= rest /\ rest < rates.scan_rate

\* sampling_rate = 2 and scan_rate = 1000 give 2000 projections per frame
C26_Witness ==
    /\ rates.pc = "done"
    /\ rates.sampling_rate = 2
    /\ rates.scan_rate = 1000
    /\ rates.numberOfProjections_ = 2000

\* C27: the map of input queues is never structurally modified by one
\* thread while another thread accesses it: no thread inserts while another
\* is inside operator[], and every key a thread looks up is in the map
\* already.
C27_NoConcurrentInsert ==
    \A t \in DOMAIN qmap.acc :
        /\ qmap.acc[t].pc = "insert" =>
              \A u \in DOMAIN qmap.acc \ {t} : qmap.acc[u].pc = "idle"
        /\ qmap.acc[t].pc = "lookup" => qmap.acc[t].key \in qmap.keys

\* C28: H2D assigns the valid Images to the devices round-robin in arrival
\* order, whatever their frame indices: the n-th Image the Receiver loaded
\* (n = 0, 1, ...; its start is n + 1) is in the queue log of device
\* n mod K, and the numbers of Images assigned to two devices differ by at
\* most 1.
C28_RoundRobin ==
    \A d \in Workers :
        /\ \A i \in 1 .. Len(subLog["H2D"][d]) :
              subLog["H2D"][d][i].valid =>
                  (subLog["H2D"][d][i].start - 1) % numberOfDevices_ = d
        /\ \A e \in Workers :
              NumValid(subLog["H2D"][d]) - NumValid(subLog["H2D"][e]) <= 1

\* with two devices the third Image went to device 0 again, although its
\* frame index is below the index of the Image before it
C28_Witness ==
    /\ numberOfDevices_ = 2
    /\ NumValid(subLog["H2D"][0]) = 2
    /\ NumValid(subLog["H2D"][1]) = 1
    /\ subLog["H2D"][0][2].index < subLog["H2D"][1][1].index

\* C29: a worker holds the buffer of its input Image until it has pushed
\* the output for it to results_: the step that ends its hold on the input
\* is the step that pushes that output.  And when a stage pushes its
\* outbound sentinel, its input queues are empty and neither process() nor
\* a worker of the stage holds an Image of the stage before it.
C29_InputHeldUntilOutput ==
    [][\A s \in Stages :
          /\ \A d \in Devices :
                /\ win[s][d].valid => ~OnFreeList(win[s][d].data)
                /\ (win[s][d].valid /\ ~win'[s][d].valid) =>
                      /\ results_'[s] = Append(results_[s], wout[s][d])
                      /\ wout[s][d].valid
                      /\ wout[s][d].start = win[s][d].start
                      /\ LET b == win[s][d].data
                         IN \E j \in 1 .. Len(pool'[RegOf(b)].used) :
                               pool'[RegOf(b)].used[j].data = b
          /\ sentOut'[s] = sentOut[s] + 1 =>
                /\ ~inp[s].valid
                /\ \A d \in Devices :
                      q[s][d] = << >> /\ ~win[s][d].valid /\ ~wout[s][d].valid
      ]_vars

\* a stage has pushed its sentinel after two outputs, and a buffer of the
\* stage before it is back on its free list
C29_Witness ==
    \E s \in Stages :
        /\ sentOut[s] = 1
        /\ TotalProduced(s) = 2
        /\ \E d \in Devices : Len(pool[Reg(Upstream(s), d)].used) >= 1

\* C30: a second sentinel passed to process() after the first was handled
\* is harmless: process() raises no error, and no worker queue and no
\* results_ is sent a sentinel more than once.
C30_SecondSentinelHarmless ==
    \A s \in Stages :
        /\ fpc[s] # "error"
        /\ sentOut[s] <= 1
        /\ \A d \in Devices : NumSentinel(subLog[s][d]) <= 1

\* C31: every valid Image that process() of Attenuation or D2H accepted is
\* in a queue that has a worker thread: no queue of a device outside
\* [0, K) holds an Image.
C31_NoParkedImage ==
    \A s \in {"Att", "D2H"} : \A d \in Devices \ Workers : q[s][d] = << >>

\* C32: move-assigning onto an Image that is still valid, or invalid() on
\* a valid Image, loses no pooled buffer: no buffer of a registration is
\* deallocated instead of going back to its free list.
C32_NoPooledBufferFreed ==
    unit.kind = "image" => \A b \in unit.freed : ~IsBuffer(b)

\* C33: copying a pooled Image and destroying the original and the copy
\* leaves the registration with the buffers it registered: the free list
\* never holds more than that, and only buffers of the registration.
C33_PoolNeverGrows ==
    unit.kind = "image" =>
        \A r \in Regs :
            /\ FreeLen(pool, r) <= RegCount(r, numberOfDevices_)
            /\ \A j \in 1 .. Len(pool[r].used) :
                  IsBuffer(pool[r].used[j].data)

\* C34: for every configuration and frame index the copies of loadImage read
\* inside the ring buffer of the module, write inside the sinogram, and after
\* the loop the stripes written are pairwise disjoint and cover the sinogram.
C34_CopiesInBounds ==
    unit.kind = "stripes" =>
        LET cp == unit.copies
            Stripe(m) == cp[m].wrFrom .. cp[m].wrTo - 1
        IN /\ \A m \in 1 .. Len(cp) :
                 /\ 0 <= cp[m].rdFrom /\ cp[m].rdTo <= RingElements(unit.cfg)
                 /\ 0 <= cp[m].wrFrom /\ cp[m].wrTo <= SinoElements(unit.cfg)
           /\ unit.detModInd = unit.cfg.modules =>
                 /\ \A m, n \in 1 .. Len(cp) :
                       m # n => Stripe(m) \cap Stripe(n) = {}
                 /\ \A e \in 0 .. SinoElements(unit.cfg) - 1 :
                       \E m \in 1 .. Len(cp) : e \in Stripe(m)

\* C35: the reference average of plane p is taken over the blocks
\* i * number_of_planes + p, i = 0 .. F - 1, of plane p: no element of a
\* block of another plane is added, and after the loops exactly these
\* blocks were added.
C35_AverageOwnPlane ==
    unit.kind = "average" =>
        LET c == unit.cfg
            BlocksOf(p) == {a[2] \div c.elems :
                              a \in {b \in unit.adds : b[1] \div c.elems = p}}
        IN /\ \A a \in unit.adds :
                 PlaneOfBlock(c, a[2] \div c.elems) = a[1] \div c.elems
           /\ unit.i = c.frames =>
                 \A p \in 0 .. c.planes - 1 :
                     BlocksOf(p) = {i * c.planes + p : i \in 0 .. c.frames - 1}

\* C36: an output() before any attach() throws and forwards nothing; after
\* an attach() every output(x) forwards x exactly once, to the port attached
\* most recently: each port received, in order, exactly the values output
\* while it was the latest attached port, and the throws are the outputs
\* made before the first attach.
C36_OutputToLatestPort ==
    unit.kind = "port" =>
        LET log == unit.log
            Attached(n) == {j \in 1 .. n - 1 : log[j].op = "attach"}
            Latest(n) ==
                IF Attached(n) = {} THEN nullptr
                ELSE log[CHOOSE j \in Attached(n) :
                             \A k \in Attached(n) : k <= j].arg
            Sent[n \in 0 .. Len(log)] ==
                IF n = 0 THEN [p \in Ports |-> << >>]
                ELSE IF log[n].op = "output" /\ Latest(n) # nullptr
                     THEN [Sent[n - 1] EXCEPT
                             ![Latest(n)] = Append(@, log[n].arg)]
                     ELSE Sent[n - 1]
        IN /\ unit.recv = Sent[Len(log)]
           /\ unit.thrown =
                  Cardinality({n \in 1 .. Len(log) :
                                 log[n].op = "output" /\ Latest(n) = nullptr})

\* an output threw, then a port was attached and replaced by another one,
\* and an output went to the second port
C36_Witness ==
    /\ unit.kind = "port"
    /\ unit.thrown > 0
    /\ \E i, j, n \in 1 .. Len(unit.log) :
          /\ i < j /\ j < n
          /\ unit.log[i].op = "attach" /\ unit.log[j].op = "attach"
          /\ unit.log[i].arg # unit.log[j].arg
          /\ unit.log[n].op = "output"
          /\ unit.recv[unit.log[j].arg] # << >>

\* C37: operator[](i) of a Volume of depth d throws for i >= d; for i < d
\* it returns a valid Image with a copy of the width * height elements of
\* slice i, of size width * height and index i; the Volume is unchanged in
\* both cases.
C37_SliceImage ==
    (unit.kind = "volume" /\ unit.last.op = "index") =>
        LET v == unit.last.before
            i == unit.last.i
            r == unit.last.result
        IN /\ unit.vol[unit.last.slot] = v
           /\ r.thrown <=> i >= v.depth
           /\ ~r.thrown =>
                 /\ r.img.valid
                 /\ r.img.data = Slice(v, i)
                 /\ Len(r.img.data) = v.width * v.height
                 /\ r.img.size = v.width * v.height
                 /\ r.img.index = i

\* C38: a Volume that was moved from, by move construction or by move
\* assignment, is invalid, so at most one valid Volume claims a buffer.
C38_MovedFromInvalid ==
    unit.kind = "volume" =>
        /\ \A x \in unit.moved : ~unit.vol[x].valid
        /\ \A x, y \in Slots :
              (x # y /\ unit.vol[x].valid /\ unit.vol[y].valid) =>
                  (unit.vol[x].data # NoBuf /\ unit.vol[y].data # NoBuf)

====
